---- MODULE Spec2Model ----
(***************************************************************************)
(* Model of jiaoben/cloudmail.py: the EmailAPI client (get_token,          *)
(* get_mail_list), the persistence helper save_emails_to_json and the      *)
(* workflow test_mail_functions.                                           *)
(*                                                                         *)
(* Python values are modelled as tagged records [kind, val]:               *)
(*   null  : None                 num  : an integer                        *)
(*   str   : a tuple of character codes (so that lower() and `in` are      *)
(*           computed, not assumed)                                        *)
(*   list  : a tuple of values    dict : a function over Keys, where an    *)
(*           absent key maps to Missing                                    *)
(* Two specifications are given: SpecAPI (one EmailAPI object under an     *)
(* arbitrary sequence of calls) and Spec (one run of test_mail_functions). *)
(***************************************************************************)
EXTENDS Integers, Sequences, FiniteSets, TLC

VARIABLES
    token,          \* EmailAPI.token
    requests,       \* endpoints of the HTTP requests issued so far, in order
    last_request,   \* the last HTTP request handed to requests.post
    call,           \* the last EmailAPI method call: name, arguments, state before it
    ret,            \* what the last EmailAPI method call returned
    cfg,            \* module-level configuration and the workflow's arguments
    pc,             \* position of test_mail_functions
    token_result,   \* local of test_mail_functions (line 143)
    mail_result,    \* local of test_mail_functions (lines 157/166)
    extracted,      \* mail_list as assigned on line 179
    mail_list,      \* mail_list after the local filter of lines 182-183
    latest_mail,    \* latest_mail of line 187
    saved           \* the sequences written by save_emails_to_json, in order

vars == <<token, requests, last_request, call, ret, cfg, pc,
          token_result, mail_result, extracted, mail_list, latest_mail, saved>>

apiVars == <<token, requests, last_request, call, ret>>
wfVars  == <<cfg, pc, token_result, mail_result, extracted, mail_list,
            latest_mail, saved>>

----------------------------------------------------------------------------
(* Bounds *)

MaxCalls == 3      \* number of EmailAPI method calls in SpecAPI
MaxMsgs  == 2      \* number of messages in a mail-list response

----------------------------------------------------------------------------
(* Python / JSON values *)

Keys == {"code", "message", "data", "token", "list", "subject", "emailId"}

Missing  == [kind |-> "missing", val |-> 0]
JNull    == [kind |-> "null", val |-> 0]
JNum(n)  == [kind |-> "num", val |-> n]
JStr(s)  == [kind |-> "str", val |-> s]
JList(s) == [kind |-> "list", val |-> s]
JDict(f) == [kind |-> "dict",
             val  |-> [k \in Keys |-> IF k \in DOMAIN f THEN f[k] ELSE Missing]]
EmptyDict == [kind |-> "dict", val |-> [k \in Keys |-> Missing]]

\* dict.get(key, default); the caller checks v.kind = "dict" first, as a
\* .get on anything else raises AttributeError
Get(v, key, default) ==
    IF v.val[key].kind = "missing" THEN default ELSE v.val[key]

HasKey(v, key) == v.kind = "dict" /\ v.val[key].kind # "missing"

\* Python truthiness (bool(v))
Truthy(v) ==
    CASE v.kind = "null" -> FALSE
      [] v.kind = "num"  -> v.val # 0
      [] v.kind = "str"  -> v.val # <<>>
      [] v.kind = "list" -> v.val # <<>>
      [] v.kind = "dict" -> \E k \in Keys : v.val[k].kind # "missing"
      [] OTHER -> FALSE

\* Python ==
PyEq(a, b) == a.kind = b.kind /\ a.val = b.val

\* str.lower() on one character: ASCII upper-case letters move down by 32,
\* every other character modelled here has no lower-case mapping
LowerChar(c) == IF c >= 65 /\ c <= 90 THEN c + 32 ELSE c

\* str.lower()
Lower(s) == [i \in 1..Len(s) |-> LowerChar(s[i])]

\* the operator `needle in hay` on two str
StrIn(needle, hay) ==
    \E i \in 0..(Len(hay) - Len(needle)) :
        \A j \in 1..Len(needle) : hay[i + j] = needle[j]

----------------------------------------------------------------------------
(* Strings of the program and of the modelled inputs, as character codes *)

NeedTokenMsg == <<35831, 20808>>        \* "请先..." (line 85), abbreviated
AttrErrText  == <<65, 116, 116, 114>>   \* str(AttributeError), abbreviated
ConnErrText  == <<67, 111, 110, 110>>   \* str(ConnectionError), abbreviated
HttpErrText  == <<53, 48, 48>>          \* str(HTTPError) "500 ..."
JsonErrText  == <<69, 120, 112>>        \* str(JSONDecodeError) "Exp..."
BadCredText  == <<98, 97, 100>>         \* server message "bad"
OkText       == <<111, 107>>            \* server message "ok"
Tok1         == <<84, 49>>              \* "T1"
Tok2         == <<84, 50>>              \* "T2"
JWT_SECRET   == <<>>                    \* line 25
EMAIL        == <<>>                    \* line 23
PASSWORD     == <<>>                    \* line 24
Desc         == <<100, 101, 115, 99>>   \* "desc"
SubEmail     == <<115, 64, 120>>        \* "s@x"
NvidiaEmail  == <<97, 64, 110>>         \* "account@nvidia.com", abbreviated
FilterText   == <<120>>                 \* "x"

\* the error dict built on lines 64, 85 and 118
ErrResult(text) == JDict([code |-> JNum(-1), message |-> JStr(text)])

----------------------------------------------------------------------------
(* What the two HTTP calls can produce *)

\* requests.post raised; the response body was not JSON; or the body parsed
RaiseOutcome(text) == [kind |-> "raise", text |-> text, val |-> JNull]
HttpErrOutcome     == [kind |-> "httperror", text |-> HttpErrText, val |-> JNull]
NoJsonOutcome      == [kind |-> "nojson", text |-> JsonErrText, val |-> JNull]
JsonOutcome(v)     == [kind |-> "json", text |-> <<>>, val |-> v]

\* the data field of a token-issuance body
TokenDatas ==
    { Missing, JNull, JList(<<>>), EmptyDict,
      JDict([token |-> JNull]), JDict([token |-> JStr(<<>>)]),
      JDict([token |-> JStr(Tok1)]), JDict([token |-> JStr(Tok2)]) }

TokenBodies ==
    { JDict([code |-> JNum(200), message |-> JStr(OkText), data |-> d]) :
          d \in TokenDatas }
    \cup { JDict([code |-> JNum(401), message |-> JStr(BadCredText)]),
           JDict([code |-> JNum(401), message |-> JStr(BadCredText),
                  data |-> JDict([token |-> JStr(Tok2)])]),
           JDict([message |-> JStr(BadCredText)]),
           JDict([code |-> JStr(<<50, 48, 48>>), data |-> JDict([token |-> JStr(Tok2)])]),
           JList(<<>>), JNull }

TokenOutcomes ==
    { RaiseOutcome(ConnErrText), NoJsonOutcome }
    \cup { JsonOutcome(b) : b \in TokenBodies }

----------------------------------------------------------------------------
(* EmailAPI *)

\* EmailAPI.__init__: self.token = None
EmailAPI_init == JNull

\* A method's outcome: the token afterwards, whether an HTTP request was
\* issued and which, and what the method returned
Outcome(tok, sent, req, val) ==
    [token |-> tok, sent |-> sent, request |-> req, val |-> val]

NoRequest == [endpoint |-> "none", auth |-> JNull, payload |-> <<>>]

\* get_token storing data.token whatever the embedded code is
get_token_mut_always_store(tok, email, password, jwt_secret, http) ==
    LET req  == [endpoint |-> "genToken", auth |-> JStr(jwt_secret),
                 payload |-> [email |-> JStr(email), password |-> JStr(password)]]
        data == http.val
    IN  IF http.kind # "json" THEN
            Outcome(tok, TRUE, req, ErrResult(http.text))
        ELSE IF data.kind # "dict" THEN
            Outcome(tok, TRUE, req, ErrResult(AttrErrText))
        ELSE LET inner == Get(data, "data", EmptyDict)
             IN  IF inner.kind # "dict" THEN
                     Outcome(tok, TRUE, req, ErrResult(AttrErrText))
                 ELSE Outcome(Get(inner, "token", JNull), TRUE, req, data)

\* EmailAPI.get_token, lines 49-64
get_token(tok, email, password, jwt_secret, http) ==
    LET req  == [endpoint |-> "genToken", auth |-> JStr(jwt_secret),
                 payload |-> [email |-> JStr(email), password |-> JStr(password)]]
        data == http.val
    IN  IF http.kind # "json" THEN
            \* line 63: except Exception
            Outcome(tok, TRUE, req, ErrResult(http.text))
        ELSE IF data.kind # "dict" THEN
            \* line 59: data.get raises AttributeError, caught on line 63
            Outcome(tok, TRUE, req, ErrResult(AttrErrText))
        ELSE IF PyEq(Get(data, "code", JNull), JNum(200)) THEN
            LET inner == Get(data, "data", EmptyDict)
            IN  IF inner.kind # "dict" THEN
                    \* line 60: .get("token") on a non-dict, caught on line 63
                    Outcome(tok, TRUE, req, ErrResult(AttrErrText))
                ELSE Outcome(Get(inner, "token", JNull), TRUE, req, data)
        ELSE Outcome(tok, TRUE, req, data)

\* max in place of min
ClampSize_mut_max(size) == IF size > 20 THEN size ELSE 20

\* line 99: min(size, 20)

ClampSize(size) == IF size < 20 THEN size ELSE 20

\* `if v is not None` in place of `if v`
OptionalField_mut_not_none(key, v) ==
    IF v.kind # "null" THEN key :> v ELSE <<>>

\* lines 103-110: `if v: payload[key] = v`

OptionalField(key, v) == IF Truthy(v) THEN key :> v ELSE <<>>

\* lines 94-110
BuildPayload(a) ==
    [toEmail  |-> a.hd_email,
     timeSort |-> a.send_sort,
     type     |-> a.mail_type,
     num      |-> a.num,
     size     |-> ClampSize(a.size)]
    @@ OptionalField("sendName", a.send_name)
    @@ OptionalField("sendEmail", a.send_email)
    @@ OptionalField("subject", a.subject)
    @@ OptionalField("content", a.content)

\* `if self.token is None` in place of `if not self.token`
TokenAbsent_mut_is_none(tok) == tok.kind = "null"

\* line 84: `if not self.token`

TokenAbsent(tok) == ~Truthy(tok)

\* EmailAPI.get_mail_list, lines 70-118
get_mail_list(tok, a, http) ==
    IF TokenAbsent(tok) THEN
        Outcome(tok, FALSE, NoRequest, ErrResult(NeedTokenMsg))
    ELSE
        LET req == [endpoint |-> "emailList", auth |-> tok, payload |-> BuildPayload(a)]
        IN  IF http.kind # "json" THEN
                \* line 117: except requests.exceptions.RequestException, which
                \* the errors of requests.post, raise_for_status and (from
                \* requests 2.27 on) response.json all are
                Outcome(tok, TRUE, req, ErrResult(http.text))
            ELSE Outcome(tok, TRUE, req, http.val)

----------------------------------------------------------------------------
(* Calls on the EmailAPI object: the state they leave behind *)

NoCall == [op |-> "none", n |-> 0, args |-> <<>>, http |-> RaiseOutcome(<<>>),
           token_before |-> JNull, requests_before |-> <<>>]

\* the object's state after a method call with outcome o
Apply(op, args, http, o) ==
    /\ token' = o.token
    /\ requests' = IF o.sent THEN Append(requests, o.request.endpoint) ELSE requests
    /\ last_request' = IF o.sent THEN o.request ELSE last_request
    /\ call' = [op |-> op, n |-> call.n + 1, args |-> args, http |-> http,
                token_before |-> token, requests_before |-> requests]
    /\ ret' = o.val

InitAPIVars ==
    /\ token = EmailAPI_init
    /\ requests = <<>>
    /\ last_request = NoRequest
    /\ call = NoCall
    /\ ret = JNull

----------------------------------------------------------------------------
(* Mail-list responses *)

\* "Ab", "baB", "ba", "Q" against the targets "ab", "AB", "1" below: a match
\* that needs case folding on both sides, a match inside the subject, a
\* non-match, and a pair of characters 32 apart that are not letters
Msgs ==
    { JDict([subject |-> JStr(<<65, 98>>), emailId |-> JNum(1)]),
      JDict([subject |-> JStr(<<98, 97, 66>>)]),
      JDict([subject |-> JStr(<<98, 97>>)]),
      JDict([subject |-> JStr(<<81>>)]),
      JDict([subject |-> JStr(<<>>)]),
      JDict([emailId |-> JNum(2)]),
      JDict([subject |-> JNull]),
      JStr(<<65, 98>>) }

MsgSeqs == UNION { [1..n -> Msgs] : n \in 0..MaxMsgs }

MailDatas ==
    { Missing, JNull, JStr(<<65, 98>>), EmptyDict,
      JDict([list |-> JNull]), JDict([list |-> JStr(<<65, 98>>)]),
      JDict([list |-> JDict([emailId |-> JNum(1)])]) }
    \cup { JList(l) : l \in MsgSeqs }
    \cup { JDict([list |-> JList(l)]) : l \in MsgSeqs }

MailBodies ==
    { JDict([code |-> JNum(200), data |-> d]) : d \in MailDatas }
    \cup { JDict([code |-> JNum(500), message |-> JStr(BadCredText)]),
           JDict([code |-> JNum(500), message |-> JStr(BadCredText),
                  data |-> JList(<<JDict([subject |-> JStr(<<65, 98>>)])>>)]),
           JList(<<>>), JNull }

MailFailures ==
    { RaiseOutcome(ConnErrText), HttpErrOutcome, NoJsonOutcome }

MailOutcomes == MailFailures \cup { JsonOutcome(b) : b \in MailBodies }

----------------------------------------------------------------------------
(* SpecAPI: one EmailAPI object, any sequence of calls *)

OptionalArgs == { JNull, JStr(<<>>), JStr(FilterText) }
SizeArgs     == { -1, 19, 20, 21, 50 }

\* every combination of the four optional filters at the default size, and
\* every size with no filter and with all four
MailArgs ==
    [hd_email : {JStr(SubEmail)}, send_name : OptionalArgs,
     send_email : OptionalArgs, subject : OptionalArgs, content : OptionalArgs,
     send_sort : {JStr(Desc)}, mail_type : {JNum(0)}, num : {JNum(1)},
     size : {20}]
    \cup
    { [hd_email |-> JStr(SubEmail), send_name |-> f, send_email |-> f,
       subject |-> f, content |-> f, send_sort |-> JStr(Desc),
       mail_type |-> JNum(0), num |-> JNum(1), size |-> sz] :
          f \in {JNull, JStr(FilterText)}, sz \in SizeArgs }

ApiMailOutcomes ==
    MailFailures
    \cup { JsonOutcome(JDict([code |-> JNum(200), data |-> JList(<<>>)])),
           JsonOutcome(JDict([code |-> JNum(500), message |-> JStr(BadCredText)])) }

WfIdle ==
    /\ cfg = [TO_EMAIL |-> <<>>, SEND_EMAIL |-> <<>>, SUBJECT |-> <<>>,
              LOCAL_FILTER |-> FALSE, save_to_file |-> FALSE]
    /\ pc = "api"
    /\ token_result = JNull
    /\ mail_result = JNull
    /\ extracted = JNull
    /\ mail_list = JNull
    /\ latest_mail = JNull
    /\ saved = <<>>

InitAPI == InitAPIVars /\ WfIdle

ApiGetToken ==
    /\ call.n < MaxCalls
    /\ \E http \in TokenOutcomes :
          Apply("get_token", <<>>, http, get_token(token, EMAIL, PASSWORD, JWT_SECRET, http))
    /\ UNCHANGED wfVars

ApiGetMailList ==
    /\ call.n < MaxCalls
    /\ \E a \in MailArgs, http \in ApiMailOutcomes :
          Apply("get_mail_list", a, http, get_mail_list(token, a, http))
    /\ UNCHANGED wfVars

NextAPI == ApiGetToken \/ ApiGetMailList

SpecAPI == InitAPI /\ [][NextAPI]_vars

----------------------------------------------------------------------------
(* Spec: one run of test_mail_functions *)

Subjects    == { <<>>, <<97, 98>>, <<65, 66>>, <<49>> }   \* "", "ab", "AB", "1"
SendEmails  == { <<>>, NvidiaEmail }
ToEmails    == { <<>>, SubEmail }

\* `x if x else None` on a configured string (lines 159, 168, 169)
OrNone(s) == IF s # <<>> THEN JStr(s) ELSE JNull

\* line 152
TargetEmail == IF cfg.TO_EMAIL # <<>> THEN cfg.TO_EMAIL ELSE EMAIL

\* line 155: `LOCAL_FILTER and SUBJECT`
UseLocalFilter == cfg.LOCAL_FILTER /\ cfg.SUBJECT # <<>>

\* the arguments of the call on lines 157-163 or 166-173; the parameters not
\* passed take the defaults of lines 73-80
QueryArgs ==
    [hd_email   |-> JStr(TargetEmail),
     send_name  |-> JNull,
     send_email |-> OrNone(cfg.SEND_EMAIL),
     subject    |-> IF UseLocalFilter THEN JNull ELSE OrNone(cfg.SUBJECT),
     content    |-> JNull,
     send_sort  |-> JStr(Desc),
     mail_type  |-> JNum(0),
     num        |-> JNum(1),
     size       |-> IF UseLocalFilter THEN 20 ELSE 10]

\* reading the wrapped sequence under the key "data" in place of "list"
ExtractMailList_mut_wrong_key(result) ==
    LET data_content == Get(result, "data", JList(<<>>))
    IN  IF data_content.kind = "list" THEN [raised |-> FALSE, val |-> data_content]
        ELSE IF data_content.kind = "dict"
             THEN [raised |-> FALSE, val |-> Get(data_content, "data", JList(<<>>))]
             ELSE [raised |-> TRUE, val |-> JStr(AttrErrText)]

\* lines 178-179; [raised, val]
ExtractMailList(result) ==
    LET data_content == Get(result, "data", JList(<<>>))
    IN  IF data_content.kind = "list" THEN [raised |-> FALSE, val |-> data_content]
        ELSE IF data_content.kind = "dict"
             THEN [raised |-> FALSE, val |-> Get(data_content, "list", JList(<<>>))]
             ELSE [raised |-> TRUE, val |-> JStr(AttrErrText)]

\* mail.get('subject', '') of line 183
SubjectOf(mail) == Get(mail, "subject", JStr(<<>>))

\* line 183 raises on this element: .get on a non-dict, .lower() on a non-str
MailRaises(mail) == mail.kind # "dict" \/ SubjectOf(mail).kind # "str"

\* the comprehension's condition without the two .lower() calls
Keeps_mut_case_sensitive(subject, mail) == StrIn(subject, SubjectOf(mail).val)

\* the condition of the comprehension on line 183
Keeps(subject, mail) == StrIn(Lower(subject), Lower(SubjectOf(mail).val))

\* the comprehension of line 183 over a list; [raised, val]
LocalFilter(subject, ml) ==
    IF \E i \in 1..Len(ml.val) : MailRaises(ml.val[i])
    THEN [raised |-> TRUE, val |-> JStr(AttrErrText)]
    ELSE [raised |-> FALSE,
          val |-> JList(SelectSeq(ml.val, LAMBDA m : Keeps(subject, m)))]

\* [mail_list[-1]] in place of [mail_list[0]]
SelectLatest_mut_last(ml) ==
    CASE ml.kind = "list" -> [raised |-> FALSE, val |-> JList(<<ml.val[Len(ml.val)]>>)]
      [] ml.kind = "str"  ->
            [raised |-> FALSE, val |-> JList(<<JStr(<<ml.val[Len(ml.val)]>>)>>)]
      [] OTHER            -> [raised |-> TRUE, val |-> JStr(AttrErrText)]

\* line 187: [mail_list[0]] on a truthy mail_list; [raised, val]
SelectLatest(ml) ==
    CASE ml.kind = "list" -> [raised |-> FALSE, val |-> JList(<<ml.val[1]>>)]
      [] ml.kind = "str"  -> [raised |-> FALSE, val |-> JList(<<JStr(<<ml.val[1]>>)>>)]
      [] OTHER            -> [raised |-> TRUE, val |-> JStr(AttrErrText)]

Init ==
    /\ InitAPIVars
    /\ cfg \in [TO_EMAIL : ToEmails, SEND_EMAIL : SendEmails, SUBJECT : Subjects,
                LOCAL_FILTER : BOOLEAN, save_to_file : BOOLEAN]
    /\ pc = "start"
    /\ token_result = JNull
    /\ mail_result = JNull
    /\ extracted = JNull
    /\ mail_list = JNull
    /\ latest_mail = JNull
    /\ saved = <<>>

\* lines 142-143
WfGetToken ==
    /\ pc = "start"
    /\ \E http \in TokenOutcomes :
          LET o == get_token(EmailAPI_init, EMAIL, PASSWORD, JWT_SECRET, http)
          IN  /\ Apply("get_token", <<>>, http, o)
              /\ token_result' = o.val
    /\ pc' = "got_token"
    /\ UNCHANGED <<cfg, mail_result, extracted, mail_list, latest_mail, saved>>

\* the workflow going on to the query whatever the token result is
WfCheckToken_mut_no_halt ==
    /\ pc = "got_token"
    /\ pc' = "authed"
    /\ UNCHANGED <<apiVars, cfg, token_result, mail_result, extracted, mail_list,
                   latest_mail, saved>>

\* lines 145-149
WfCheckToken ==
    /\ pc = "got_token"
    /\ pc' = IF ~PyEq(Get(token_result, "code", JNull), JNum(200))
             THEN "halted" ELSE "authed"
    /\ UNCHANGED <<apiVars, cfg, token_result, mail_result, extracted, mail_list,
                   latest_mail, saved>>

\* lines 152-173
WfQuery ==
    /\ pc = "authed"
    /\ \E http \in MailOutcomes :
          LET o == get_mail_list(token, QueryArgs, http)
          IN  /\ Apply("get_mail_list", QueryArgs, http, o)
              /\ mail_result' = o.val
    /\ pc' = "queried"
    /\ UNCHANGED <<cfg, token_result, extracted, mail_list, latest_mail, saved>>

\* lines 176-179 and 196-197
WfExtract ==
    /\ pc = "queried"
    /\ IF mail_result.kind # "dict" THEN
           \* line 176: .get on a non-dict
           pc' = "crashed" /\ UNCHANGED extracted
       ELSE IF ~PyEq(Get(mail_result, "code", JNull), JNum(200)) THEN
           pc' = "query_failed" /\ UNCHANGED extracted
       ELSE LET e == ExtractMailList(mail_result)
            IN  IF e.raised
                THEN pc' = "crashed" /\ UNCHANGED extracted
                ELSE pc' = "extracted" /\ extracted' = e.val
    /\ UNCHANGED <<apiVars, cfg, token_result, mail_result, mail_list, latest_mail,
                   saved>>

\* lines 182-183
WfFilter ==
    /\ pc = "extracted"
    /\ IF UseLocalFilter /\ Truthy(extracted) THEN
           IF extracted.kind # "list" THEN
               \* iterating a str or a dict yields str, a number is not iterable
               pc' = "crashed" /\ UNCHANGED mail_list
           ELSE LET f == LocalFilter(cfg.SUBJECT, extracted)
                IN  IF f.raised
                    THEN pc' = "crashed" /\ UNCHANGED mail_list
                    ELSE pc' = "filtered" /\ mail_list' = f.val
       ELSE pc' = "filtered" /\ mail_list' = extracted
    /\ UNCHANGED <<apiVars, cfg, token_result, mail_result, extracted, latest_mail,
                   saved>>

\* lines 185-191 and 194-195
WfSelect ==
    /\ pc = "filtered"
    /\ IF Truthy(mail_list) THEN
           LET l == SelectLatest(mail_list)
           IN  IF l.raised
               THEN pc' = "crashed" /\ UNCHANGED latest_mail
               ELSE /\ latest_mail' = l.val
                    /\ pc' = IF cfg.save_to_file THEN "saving" ELSE "done"
       ELSE pc' = "no_mail" /\ UNCHANGED latest_mail
    /\ UNCHANGED <<apiVars, cfg, token_result, mail_result, extracted, mail_list,
                   saved>>

\* save_emails_to_json, lines 124-133, called on line 192: the file is
\* written, or open()/json.dump raise an OSError nothing catches
WfSave ==
    /\ pc = "saving"
    /\ \/ pc' = "done" /\ saved' = Append(saved, latest_mail)
       \/ pc' = "io_failed" /\ UNCHANGED saved
    /\ UNCHANGED <<apiVars, cfg, token_result, mail_result, extracted, mail_list,
                   latest_mail>>

Next ==
    \/ WfGetToken
    \/ WfCheckToken
    \/ WfQuery
    \/ WfExtract
    \/ WfFilter
    \/ WfSelect
    \/ WfSave

Spec == Init /\ [][Next]_vars

----------------------------------------------------------------------------
(* Properties *)

\* the embedded code of a returned value, None when it has none
CodeOf(v) == IF v.kind = "dict" THEN Get(v, "code", JNull) ELSE JNull

\* the last call was this method and issued an HTTP request
Sent(op) == call.op = op /\ requests # call.requests_before

RequiredKeys == {"toEmail", "timeSort", "type", "num", "size"}

OptionalKeys ==
    [send_name |-> "sendName", send_email |-> "sendEmail",
     subject |-> "subject", content |-> "content"]

\* C1: get_mail_list called with the token absent (None or "") returns the
\* code -1 authentication-required result and issues no HTTP request; every
\* mail-list request carries a non-empty token.
C1_UnauthenticatedGuard ==
    /\ (call.op = "get_mail_list" /\ ~Truthy(call.token_before)) =>
          /\ CodeOf(ret) = JNum(-1)
          /\ Get(ret, "message", JNull) = JStr(NeedTokenMsg)
          /\ requests = call.requests_before
    /\ Sent("get_mail_list") =>
          /\ Truthy(call.token_before)
          /\ last_request.endpoint = "emailList"
          /\ last_request.auth = call.token_before
          /\ last_request.auth.kind = "str" /\ last_request.auth.val # <<>>

\* C1 witness: a call with the empty-string token left by a 200 response
\* whose data.token is "", after one token request, with nothing sent
C1_Witness ==
    /\ call.op = "get_mail_list"
    /\ call.token_before = JStr(<<>>)
    /\ requests = <<"genToken">>
    /\ CodeOf(ret) = JNum(-1)

\* C2: a get_token result with code 200 leaves a non-empty session token,
\* equal to data.token of the response.
C2_SuccessPopulatesSession ==
    (call.op = "get_token" /\ CodeOf(ret) = JNum(200)) =>
        /\ Truthy(token)
        /\ HasKey(ret, "data")
        /\ HasKey(ret.val["data"], "token")
        /\ token = ret.val["data"].val["token"]

\* the token-issuance call failed: the transport or the JSON decoding raised,
\* or the body carries no code 200
TokenCallFailed ==
    /\ call.op = "get_token"
    /\ \/ call.http.kind # "json"
       \/ CodeOf(call.http.val) # JNum(200)

\* C3: a failed token-issuance call issues exactly one request, returns a
\* result whose code is not 200 and whose message is the server's message (or
\* the exception text), and leaves the session token as it was.
C3_AuthFailure ==
    TokenCallFailed =>
        /\ requests = Append(call.requests_before, "genToken")
        /\ ret.kind = "dict"
        /\ CodeOf(ret) # JNum(200)
        /\ IF call.http.kind # "json"
           THEN ret.val["message"] = JStr(call.http.text)
           ELSE IF call.http.val.kind = "dict"
                THEN ret.val["message"] = call.http.val.val["message"]
                ELSE ret.val["message"].kind = "str"
        /\ token = call.token_before
        /\ (~Truthy(call.token_before) => ~Truthy(token))

\* C3 witness: a 401 body that carries a token arrives while the session
\* holds another one
C3_Witness ==
    /\ TokenCallFailed
    /\ call.http.kind = "json"
    /\ CodeOf(call.http.val) = JNum(401)
    /\ HasKey(call.http.val, "data")
    /\ call.token_before = JStr(Tok1)
    /\ ret.val["message"] = JStr(BadCredText)

\* C6: the transmitted size is min(requested size, 20).
C6_PageSizeClamp ==
    Sent("get_mail_list") =>
        /\ last_request.payload["size"] <= 20
        /\ (call.args.size <= 20 => last_request.payload["size"] = call.args.size)
        /\ (call.args.size > 20 => last_request.payload["size"] = 20)

\* C6 witness: a request for 50 messages per page was transmitted
C6_Witness ==
    /\ Sent("get_mail_list")
    /\ call.args.size = 50
    /\ last_request.payload["size"] = 20

\* C7: the payload holds the five required fields, and the key of an optional
\* filter exactly when the caller gave a non-empty value, which it carries.
C7_OptionalFilters ==
    Sent("get_mail_list") =>
        LET p == last_request.payload
            a == call.args
        IN  /\ RequiredKeys \subseteq DOMAIN p
            /\ DOMAIN p \subseteq
                  RequiredKeys \cup { OptionalKeys[f] : f \in DOMAIN OptionalKeys }
            /\ p["toEmail"] = a.hd_email /\ p["timeSort"] = a.send_sort
            /\ p["type"] = a.mail_type /\ p["num"] = a.num
            /\ \A f \in DOMAIN OptionalKeys :
                  /\ (OptionalKeys[f] \in DOMAIN p) <=>
                        (a[f].kind = "str" /\ a[f].val # <<>>)
                  /\ (OptionalKeys[f] \in DOMAIN p) => p[OptionalKeys[f]] = a[f]

\* C7 witness: one filter None, one "", two given
C7_Witness ==
    /\ Sent("get_mail_list")
    /\ call.args.send_name = JStr(<<>>)
    /\ call.args.send_email = JStr(FilterText)
    /\ call.args.subject = JStr(FilterText)
    /\ call.args.content = JNull
    /\ DOMAIN last_request.payload = RequiredKeys \cup {"sendEmail", "subject"}

----------------------------------------------------------------------------
(* Properties of the workflow *)

\* positions after line 179 assigned mail_list, and after lines 182-183
AfterExtract == {"extracted", "filtered", "saving", "done", "no_mail", "io_failed"}
AfterFilter  == AfterExtract \ {"extracted"}

\* C4: the mail-list request follows a token result with code 200; any other
\* token result halts the run with one token request, no mail-list request
\* and no file; a run issues at most one request of each kind, in that order.
C4_QueryOnlyAfterAuth ==
    /\ requests \in {<<>>, <<"genToken">>, <<"genToken", "emailList">>}
    /\ (requests # <<>>) = (pc # "start")
    /\ (\E i \in 1..Len(requests) : requests[i] = "emailList") =>
          CodeOf(token_result) = JNum(200)
    /\ (pc # "start" /\ CodeOf(token_result) # JNum(200)) =>
          /\ pc \in {"got_token", "halted"}
          /\ requests = <<"genToken">>
          /\ saved = <<>>
          /\ call.op = "get_token"

\* C4 witness: the run halted on a 401 token result
C4_Witness ==
    /\ pc = "halted"
    /\ CodeOf(token_result) = JNum(401)
    /\ requests = <<"genToken">>

\* C5: no outcome of the two HTTP calls ends the workflow with an unhandled
\* exception; only a failure to write the file may.
C5_OnlyPersistenceEscapes == pc # "crashed"

\* C8: a code-200 result yields the same sequence whether data is the
\* sequence or an object holding it under the key list.
C8_DualShape ==
    (pc \in AfterExtract \cup {"crashed"} /\ CodeOf(mail_result) = JNum(200)) =>
        LET data == mail_result.val["data"]
        IN  /\ data.kind = "list" => extracted = data
            /\ (data.kind = "dict" /\ data.val["list"].kind = "list") =>
                  extracted = data.val["list"]

\* C8 witness: two different messages arrived wrapped under list
C8_Witness ==
    /\ pc = "extracted"
    /\ mail_result.val["data"].kind = "dict"
    /\ extracted.kind = "list"
    /\ Len(extracted.val) = 2
    /\ extracted.val[1] # extracted.val[2]
    /\ extracted = mail_result.val["data"].val["list"]

IsLetter(c) == (c >= 65 /\ c <= 90) \/ (c >= 97 /\ c <= 122)

\* two characters equal up to letter case
SameLetter(c, d) ==
    c = d \/ (IsLetter(c) /\ IsLetter(d) /\ (c - d = 32 \/ d - c = 32))

\* target occurs in text, ignoring letter case
OccursIgnoringCase(target, text) ==
    \E i \in 0..(Len(text) - Len(target)) :
        \A j \in 1..Len(target) : SameLetter(text[i + j], target[j])

\* the subject of a message, "" when it has none
SubjectText(m) ==
    IF HasKey(m, "subject") /\ m.val["subject"].kind = "str"
    THEN m.val["subject"].val ELSE <<>>

\* the positions of the fetched messages that match the target subject
Matching ==
    { i \in 1..Len(extracted.val) :
          OccursIgnoringCase(cfg.SUBJECT, SubjectText(extracted.val[i])) }

\* C9: with local filtering on and a target subject set, the filtered
\* sequence is the matching fetched messages, each once, in fetched order.
C9_LocalFilter ==
    (pc \in AfterFilter /\ UseLocalFilter /\ extracted.kind = "list") =>
        /\ mail_list.kind = "list"
        /\ Len(mail_list.val) = Cardinality(Matching)
        /\ \A k \in 1..Len(mail_list.val) :
              \E i \in Matching :
                  /\ Cardinality({ j \in Matching : j <= i }) = k
                  /\ mail_list.val[k] = extracted.val[i]

\* C9 witness: of two fetched messages the second alone is kept, on a match
\* inside its subject that needs case folding on both sides
C9_Witness ==
    /\ pc = "filtered"
    /\ cfg.LOCAL_FILTER
    /\ cfg.SUBJECT = <<65, 66>>
    /\ extracted.kind = "list" /\ Len(extracted.val) = 2
    /\ mail_list.kind = "list" /\ Len(mail_list.val) = 1
    /\ mail_list.val[1] = extracted.val[2]
    /\ SubjectText(mail_list.val[1]) = <<98, 97, 66>>

\* the first element of a non-empty list or str, as mail_list[0] gives it
First(ml) == IF ml.kind = "str" THEN JStr(<<Head(ml.val)>>) ELSE Head(ml.val)

\* C10: a file is written only on a code-200 mail-list result with a
\* non-empty filtered sequence, and holds exactly its first message; a
\* failed query and an empty result write nothing.
C10_PersistFirstOnly ==
    /\ Len(saved) <= 1
    /\ saved # <<>> =>
          /\ pc = "done"
          /\ CodeOf(mail_result) = JNum(200)
          /\ Truthy(mail_list)
          /\ saved[1] = JList(<<First(mail_list)>>)
    /\ pc \in {"query_failed", "no_mail", "halted", "crashed", "io_failed"} =>
          saved = <<>>
    /\ (pc \notin {"start", "got_token", "authed", "queried"}
           /\ mail_result.kind = "dict" /\ CodeOf(mail_result) # JNum(200)) =>
          pc = "query_failed"
    /\ (pc \in AfterFilter \ {"filtered"} /\ ~Truthy(mail_list)) => pc = "no_mail"
    /\ (pc = "done" /\ cfg.save_to_file) => saved # <<>>

\* C10 witness: the filter kept two different messages and one was written
C10_Witness ==
    /\ saved # <<>>
    /\ UseLocalFilter
    /\ mail_list.kind = "list" /\ Len(mail_list.val) = 2
    /\ mail_list.val[1] # mail_list.val[2]
    /\ saved[1] = JList(<<mail_list.val[1]>>)

====
